---- MODULE Spec2Model ----
(***************************************************************************)
(* ElegooNeptuneThumbnails-Prusa: the post-processing script that reads a  *)
(* g-code file, extracts the embedded 600x600 thumbnail, resolves the      *)
(* printer model, encodes the thumbnail in the printer's format and        *)
(* prepends it to the file (src/elegoo_neptune_thumbnails.py).             *)
(*                                                                         *)
(* Text is modelled character by character: a string is a sequence of      *)
(* one-character strings, so that startswith, slicing, substring search,   *)
(* replace and line splitting are computed as Python computes them.        *)
(***************************************************************************)
EXTENDS Integers, Sequences, FiniteSets, TLC

VARIABLES
    file,           \* the g-code file on disk (characters)
    file0,          \* the file's content when the current run started
    linesep,        \* os.linesep of the platform the script runs on
    printer,        \* args.printer, the --printer override
    pc,             \* position of the current run of the script
    err,            \* the exception that ended the run, "" if none
    thumbnail,      \* self._thumbnail, the decoded image
    printer_model,  \* self._printer_model after __init__
    g_code,         \* the local g_code of add_thumbnail_prefix
    gcode_prefix,   \* the local gcode_prefix of _generate_gcode_prefix
    calls,          \* the encoder calls made by the current run, in order
    writes,         \* how often the current run opened the file for writing
    prev,           \* how the previous run on this file ended
    runs,           \* number of runs started on this file
    lines,          \* the lines scanned by _get_base64_thumbnail
    idx,            \* index of the next line of the scan
    found,          \* the local found of _get_base64_thumbnail
    base64_thumbnail, \* the local base64_thumbnail of _get_base64_thumbnail
    scan,           \* "scanning", "returned" or "raised"
    kind,           \* which folding encoder is applied ("new" or "b64jpg")
    payload,        \* its input: the codec buffer or the base64 string
    result          \* the block it returned, <<>> before the call

vars == <<file, file0, linesep, printer, pc, err, thumbnail, printer_model, g_code,
          gcode_prefix, calls, writes, prev, runs, lines, idx, found,
          base64_thumbnail, scan, kind, payload, result>>

runVars == <<file, file0, linesep, printer, pc, err, thumbnail, printer_model,
             g_code, gcode_prefix, calls, writes, prev, runs>>
scanVars == <<lines, idx, found, base64_thumbnail, scan>>
foldVars == <<kind, payload, result>>

(***************************************************************************)
(* String primitives                                                       *)
(***************************************************************************)

\* str.startswith
StartsWith(s, p) == Len(s) >= Len(p) /\ SubSeq(s, 1, Len(p)) = p

\* p occurs in s at position i
MatchAt(s, i, p) == i + Len(p) - 1 <= Len(s) /\ SubSeq(s, i, i + Len(p) - 1) = p

\* the positions at which p occurs in s
Occurrences(s, p) == {i \in 1..Len(s) : MatchAt(s, i, p)}

\* p in s
Contains(s, p) == Occurrences(s, p) # {}

\* s[n:]
From(s, n) == SubSeq(s, n + 1, Len(s))

\* concatenation of the pieces f[lo], ..., f[hi], by halving
RECURSIVE Concat(_, _, _)
Concat(f, lo, hi) ==
    IF lo > hi THEN <<>>
    ELSE IF lo = hi THEN f[lo]
    ELSE LET mid == (lo + hi) \div 2
         IN  Concat(f, lo, mid) \o Concat(f, mid + 1, hi)

Flatten(f) == Concat(f, 1, Len(f))

\* n copies of the character c
Repeat(c, n) == [i \in 1..n |-> c]

CR == "\r"
LF == "\n"

\* the indices of s, in increasing order
Indices(s) == [i \in 1..Len(s) |-> i]

\* str.replace(old, new): the occurrences of old are replaced from left to
\* right, so an occurrence that overlaps a replaced one before it is skipped.
RECURSIVE Leftmost(_, _, _, _)
Leftmost(occ, k, n, from) ==
    IF k > Len(occ) THEN <<>>
    ELSE IF occ[k] < from THEN Leftmost(occ, k + 1, n, from)
    ELSE <<occ[k]>> \o Leftmost(occ, k + 1, n, occ[k] + n)

StrReplace(s, old, new) ==
    LET occ == SelectSeq(Indices(s), LAMBDA i : MatchAt(s, i, old))
        apart == \A k \in 1..(Len(occ) - 1) : occ[k] + Len(old) <= occ[k + 1]
        start == IF apart THEN occ ELSE Leftmost(occ, 1, Len(old), 1)
        kept(k) == SubSeq(s, IF k = 1 THEN 1 ELSE start[k - 1] + Len(old),
                             IF k > Len(start) THEN Len(s) ELSE start[k] - 1)
    IN  Flatten([k \in 1..(Len(start) + 1) |->
                    kept(k) \o (IF k > Len(start) THEN <<>> ELSE new)])

\* open(..., "r").read(): text mode with universal newlines turns "\r\n" and a
\* lone "\r" into "\n"
ReadText(bytes) ==
    LET keep == SelectSeq(Indices(bytes),
                          LAMBDA i : ~(bytes[i] = LF /\ i > 1 /\ bytes[i - 1] = CR))
    IN  [k \in 1..Len(keep) |-> IF bytes[keep[k]] = CR THEN LF ELSE bytes[keep[k]]]

\* open(..., "w").write(text): text mode turns "\n" into os.linesep
WriteText(text, sep) == StrReplace(text, <<LF>>, sep)

\* the positions of the character c in s, in increasing order
Positions(s, c) == SelectSeq([i \in 1..Len(s) |-> i], LAMBDA i : s[i] = c)

\* the pieces of s that end at the positions ends (increasing), each without
\* the character at its end
Pieces(s, ends) ==
    [n \in 1..Len(ends) |->
        SubSeq(s, IF n = 1 THEN 1 ELSE ends[n - 1] + 1, ends[n] - 1)]

\* str.splitlines() of a text whose only line boundary is "\n": a last line
\* need not end with one
SplitLines(text) ==
    Pieces(text, Positions(text, LF)
                    \o (IF Len(text) > 0 /\ text[Len(text)] # LF
                        THEN <<Len(text) + 1>> ELSE <<>>))

\* str.split(c)
SplitOn(s, c) == Pieces(s, Positions(s, c) \o <<Len(s) + 1>>)

(***************************************************************************)
(* String literals of the source                                           *)
(***************************************************************************)

ThumbnailBegin ==
    <<";", " ", "t", "h", "u", "m", "b", "n", "a", "i", "l", " ", "b", "e", "g", "i", "n", " ",
      "6", "0", "0", "x", "6", "0", "0">>
ThumbnailEnd ==
    <<";", " ", "t", "h", "u", "m", "b", "n", "a", "i", "l", " ", "e", "n", "d">>
PrinterModelKey ==
    <<";", " ", "p", "r", "i", "n", "t", "e", "r", "_", "m", "o", "d", "e", "l", " ", "=", " ">>
PrusaSlicer ==
    <<"P", "r", "u", "s", "a", "S", "l", "i", "c", "e", "r">>
CensoredSlicer ==
    <<"C", "e", "n", "s", "o", "r", "e", "d", "S", "l", "i", "c", "e", "r">>
GimageTag ==
    <<";", "g", "i", "m", "a", "g", "e", ":">>
SimageTag ==
    <<";", "s", "i", "m", "a", "g", "e", ":">>
Identification ==
    <<";", "T", "h", "u", "m", "b", "n", "a", "i", "l", " ", "g", "e", "n", "e", "r", "a", "t",
      "e", "d", " ", "b", "y", " ", "t", "h", "e", " ", "E", "l", "e", "g", "o", "o", "N", "e",
      "p", "t", "u", "n", "e", "T", "h", "u", "m", "b", "n", "a", "i", "l", "s", "-", "P", "r",
      "u", "s", "a", " ", "p", "o", "s", "t", " ", "p", "r", "o", "c", "e", "s", "s", "i", "n",
      "g", " ", "s", "c", "r", "i", "p", "t", " ", "(", "h", "t", "t", "p", "s", ":", "/", "/",
      "g", "i", "t", "h", "u", "b", ".", "c", "o", "m", "/", "M", "o", "l", "o", "d", "o", "s",
      "/", "E", "l", "e", "g", "o", "o", "N", "e", "p", "t", "u", "n", "e", "T", "h", "u", "m",
      "b", "n", "a", "i", "l", "s", "-", "P", "r", "u", "s", "a", ")", "\r", ";", "J", "u",
      "s", "t", " ", "m", "e", "n", "t", "i", "o", "n", "i", "n", "g", " ", "\"", "C", "u",
      "r", "a", "_", "S", "t", "e", "a", "m", "E", "n", "g", "i", "n", "e", " ", "X", ".", "X",
      "\"", " ", "t", "o", " ", "t", "r", "i", "c", "k", " ", "p", "r", "i", "n", "t", "e",
      "r", " ", "i", "n", "t", "o", " ", "t", "h", "i", "n", "k", "i", "n", "g", " ", "t", "h",
      "i", "s", " ", "i", "s", " ", "C", "u", "r", "a", " ", "a", "n", "d", " ", "n", "o", "t",
      " ", "P", "r", "u", "s", "a", " ", "g", "c", "o", "d", "e", "\r", "\r">>
RowEnd ==
    <<"\r", "M", "1", "0", "0", "8", "6", " ", ";">>

(***************************************************************************)
(* _get_base64_thumbnail: the scan for the embedded thumbnail              *)
(***************************************************************************)

\* One iteration of the loop over the lines: the three branches of the
\* if/elif chain, and the fall-through that leaves the state alone.
ScanStep(line, fnd, acc) ==
    IF ~fnd /\ StartsWith(line, ThumbnailBegin)
        THEN [found |-> TRUE, acc |-> acc, ret |-> FALSE]
    ELSE IF fnd /\ line = ThumbnailEnd
        THEN [found |-> fnd, acc |-> acc, ret |-> TRUE]
    ELSE IF fnd
        THEN [found |-> fnd, acc |-> acc \o From(line, 2), ret |-> FALSE]
    ELSE [found |-> fnd, acc |-> acc, ret |-> FALSE]

\* The whole loop from line i on: the returned text, or the exception raised
\* after the loop.
RECURSIVE ScanFrom(_, _, _, _)
ScanFrom(ls, i, fnd, acc) ==
    IF i > Len(ls) THEN [ok |-> FALSE, text |-> <<>>]
    ELSE LET s == ScanStep(ls[i], fnd, acc)
         IN  IF s.ret THEN [ok |-> TRUE, text |-> s.acc]
             ELSE ScanFrom(ls, i + 1, s.found, s.acc)

GetBase64Thumbnail(bytes) == ScanFrom(SplitLines(ReadText(bytes)), 1, FALSE, <<>>)

ThumbnailNotFound == "Correct size thumbnail is not present"

\* The scan one line at a time.
ScanLine ==
    /\ scan = "scanning"
    /\ idx <= Len(lines)
    /\ LET s == ScanStep(lines[idx], found, base64_thumbnail)
       IN  /\ found' = s.found
           /\ base64_thumbnail' = s.acc
           /\ scan' = IF s.ret THEN "returned" ELSE "scanning"
           /\ idx' = idx + 1
    /\ UNCHANGED <<lines, runVars, foldVars>>

\* The loop ends without a return: the exception of line 67.
ScanExhausted ==
    /\ scan = "scanning"
    /\ idx > Len(lines)
    /\ scan' = "raised"
    /\ UNCHANGED <<lines, idx, found, base64_thumbnail, runVars, foldVars>>

(***************************************************************************)
(* Printer models                                                          *)
(***************************************************************************)

NEPTUNE2 ==
    <<"N", "E", "P", "T", "U", "N", "E", "2">>
NEPTUNE2D ==
    <<"N", "E", "P", "T", "U", "N", "E", "2", "D">>
NEPTUNE2S ==
    <<"N", "E", "P", "T", "U", "N", "E", "2", "S">>
NEPTUNEX ==
    <<"N", "E", "P", "T", "U", "N", "E", "X">>
NEPTUNE4 ==
    <<"N", "E", "P", "T", "U", "N", "E", "4">>
NEPTUNE4PRO ==
    <<"N", "E", "P", "T", "U", "N", "E", "4", "P", "R", "O">>
NEPTUNE4PLUS ==
    <<"N", "E", "P", "T", "U", "N", "E", "4", "P", "L", "U", "S">>
NEPTUNE4MAX ==
    <<"N", "E", "P", "T", "U", "N", "E", "4", "M", "A", "X">>
NEPTUNE3PRO ==
    <<"N", "E", "P", "T", "U", "N", "E", "3", "P", "R", "O">>
NEPTUNE3PLUS ==
    <<"N", "E", "P", "T", "U", "N", "E", "3", "P", "L", "U", "S">>
NEPTUNE3MAX ==
    <<"N", "E", "P", "T", "U", "N", "E", "3", "M", "A", "X">>
ORANGESTORMGIGA ==
    <<"O", "R", "A", "N", "G", "E", "S", "T", "O", "R", "M", "G", "I", "G", "A">>

OLD_MODELS == {NEPTUNE2, NEPTUNE2D, NEPTUNE2S, NEPTUNEX}
NEW_MODELS == {NEPTUNE4, NEPTUNE4PRO, NEPTUNE4PLUS, NEPTUNE4MAX,
               NEPTUNE3PRO, NEPTUNE3PLUS, NEPTUNE3MAX}
B64JPG_MODELS == {ORANGESTORMGIGA}

IsOldThumbnail(model) == model \in OLD_MODELS
IsNewThumbnail(model) == model \in NEW_MODELS
IsB64jpgThumbnail(model) == model \in B64JPG_MODELS

IsSupportedPrinter(model) ==
    IsOldThumbnail(model) \/ IsNewThumbnail(model) \/ IsB64jpgThumbnail(model)

\* a plausible slip: only an empty override is looked up in the file
NeedsLookupOnlyWhenEmpty(p) == p = <<>>

\* __init__: the condition under which the model is read from the g-code
NeedsLookup(p) == p = <<>> \/ p \notin (OLD_MODELS \cup NEW_MODELS \cup B64JPG_MODELS)

\* _get_printer_model: the rest of the first line that starts with the key, or
\* the exception "Printer model not found"
GetPrinterModel(bytes) ==
    LET ls == SplitLines(ReadText(bytes))
        hits == {i \in 1..Len(ls) : StartsWith(ls[i], PrinterModelKey)}
    IN  IF hits = {} THEN [ok |-> FALSE, model |-> <<>>]
        ELSE LET i == CHOOSE h \in hits : \A k \in hits : h <= k
             IN  [ok |-> TRUE, model |-> From(ls[i], Len(PrinterModelKey))]

PrinterModelNotFound == "Printer model not found"

(***************************************************************************)
(* _get_q_image_thumbnail: base64 and PNG decoding (external capabilities) *)
(***************************************************************************)

Base64Alphabet ==
    {"A", "B", "C", "D", "E", "F", "G", "H", "I", "J", "K", "L", "M", "N", "O", "P", "Q",
     "R", "S", "T", "U", "V", "W", "X", "Y", "Z", "a", "b", "c", "d", "e", "f", "g", "h",
     "i", "j", "k", "l", "m", "n", "o", "p", "q", "r", "s", "t", "u", "v", "w", "x", "y",
     "z", "0", "1", "2", "3", "4", "5", "6", "7", "8", "9", "+", "/", "="}

\* the base64 text of the 8-byte PNG signature, without its padding
PngSignature ==
    <<"i", "V", "B", "O", "R", "w", "0", "K", "G", "g", "o">>

\* An image is a sequence of rows of pixels; the null QImage has no rows.
NullImage == <<>>

Pixel(r, g, b) == [red |-> r, green |-> g, blue |-> b]

\* the images the PNG decoder may deliver in this model
Images ==
    { << <<Pixel(255, 255, 255), Pixel(8, 0, 0)>> >>,
      << <<Pixel(0, 130, 255)>>, <<Pixel(0, 4, 8)>> >> }

BadBase64 == "binascii.Error"

\* base64.decodebytes drops the characters outside the alphabet and raises
\* when what is left is no whole number of 4-character groups;
\* QImage.loadFromData leaves the image null unless the data is a PNG.
DecodeThumbnail(text) ==
    LET data == SelectSeq(text, LAMBDA c : c \in Base64Alphabet)
    IN  IF Len(data) % 4 # 0 THEN [ok |-> FALSE, images |-> {}]
        ELSE IF StartsWith(data, PngSignature) THEN [ok |-> TRUE, images |-> Images]
        ELSE [ok |-> TRUE, images |-> {NullImage}]

\* QImage.scaled(width, height, KeepAspectRatio): a null image stays null.  The
\* model keeps the pixel grid of a non-null image: its few pixels stand for
\* the width x height grid the resize capability delivers.
Scaled(img, width, height) == img

(***************************************************************************)
(* The three encoders                                                      *)
(***************************************************************************)

\* s[a:b] of Python, for 0 <= a
Slice(s, a, b) == SubSeq(s, a + 1, IF b < Len(s) THEN b ELSE Len(s))

\* f";{img_type}:"
Tag(img_type) == <<";">> \o img_type \o <<":">>

\* (r >> 3) << 11 | (g >> 2) << 5 | b >> 3: the three fields do not overlap
Pack565(px) ==
    (px.red \div 8) * 2048 + (px.green \div 4) * 32 + (px.blue \div 8)

HexDigits ==
    <<"0", "1", "2", "3", "4", "5", "6", "7", "8", "9", "a", "b", "c", "d", "e", "f">>

\* "%x" % n
RECURSIVE Hex(_)
Hex(n) ==
    IF n < 16 THEN <<HexDigits[n + 1]>>
    ELSE Hex(n \div 16) \o <<HexDigits[(n % 16) + 1]>>

\* the characters one pixel contributes: the word padded to four hex digits,
\* its low byte before its high byte
PixelHex(px) ==
    LET raw == Hex(Pack565(px))
        str_hex == IF Len(raw) = 3 THEN <<"0">> \o Slice(raw, 0, 3)
                   ELSE IF Len(raw) = 2 THEN <<"0", "0">> \o Slice(raw, 0, 2)
                   ELSE IF Len(raw) = 1 THEN <<"0", "0", "0">> \o Slice(raw, 0, 1)
                   ELSE raw
    IN  Slice(str_hex, 2, 4) \o Slice(str_hex, 0, 2)

\* _parse_thumbnail_old
ParseThumbnailOld(img, width, height, img_type) ==
    LET b_image == Scaled(img, width, height)
        row(i) == Flatten([j \in 1..Len(b_image[i]) |-> PixelHex(b_image[i][j])])
                    \o RowEnd
                    \o (IF i = Len(b_image) THEN <<CR>> ELSE <<>>)
    IN  Tag(img_type) \o Flatten([i \in 1..Len(b_image) |-> row(i)])

EachMax == 1024 - 8 - 1

\* a plausible slip: no line break at the boundaries before the last one
FoldPieceWithoutPlainBreak(j, max_line, tag, c) ==
    IF j = max_line * EachMax THEN <<CR, ";">> \o tag \o <<c>>
    ELSE IF j = 0 THEN tag \o <<c>>
    ELSE <<c>>

\* The line folding both other encoders apply to their payload: the branch
\* taken for the character at 0-based position j, with max_line computed by
\* the caller.
FoldPiece(j, max_line, tag, c) ==
    IF j = max_line * EachMax THEN <<CR, ";">> \o tag \o <<c>>
    ELSE IF j = 0 THEN tag \o <<c>>
    ELSE IF j % EachMax = 0 THEN <<CR>> \o tag \o <<c>>
    ELSE <<c>>

Fold(chars, max_line, tag) ==
    Flatten([k \in 1..Len(chars) |-> FoldPiece(k - 1, max_line, tag, chars[k])])

\* The bytes of the codec buffers of this model, with the character chr()
\* gives and the text repr() gives for each.  "^A" stands for the one
\* character chr(1).
Chr(b) ==
    CASE b = 1 -> "^A"
      [] b = 13 -> CR
      [] b = 48 -> "0"
      [] b = 65 -> "A"
      [] b = 92 -> "\\"
      [] b = 120 -> "x"

ReprByte(b) ==
    CASE b = 0 -> <<"\\", "x", "0", "0">>
      [] b = 1 -> <<"\\", "x", "0", "1">>
      [] b = 13 -> <<"\\", "r">>
      [] b = 92 -> <<"\\", "\\">>
      [] OTHER -> <<Chr(b)>>

BytearrayOpen ==
    <<"b", "y", "t", "e", "a", "r", "r", "a", "y", "(", "b", "'">>
BytearrayClose ==
    <<"'", ")">>
EscapedNul ==
    <<"\\", "x", "0", "0">>

\* str(output_data)
StrOfBytearray(output_data) ==
    BytearrayOpen
        \o Flatten([i \in 1..Len(output_data) |-> ReprByte(output_data[i])])
        \o BytearrayClose

\* data1 of _parse_thumbnail_new
Data1(output_data) ==
    LET data0 == StrReplace(StrOfBytearray(output_data), EscapedNul, <<>>)
    IN  Slice(data0, 2, Len(data0) - 2)

\* append_len of _parse_thumbnail_new
AppendLen(output_data) == EachMax - 3 - (Len(Data1(output_data)) % EachMax) + 10

\* _parse_thumbnail_new, from the buffer the ColPic codec filled
ParseThumbnailNew(img_type, output_data) ==
    LET max_line == Len(Data1(output_data)) \div EachMax
        nonzero == SelectSeq(output_data, LAMBDA b : b # 0)
        chars == [k \in 1..Len(nonzero) |-> Chr(nonzero[k])]
    IN  Fold(chars, max_line, Tag(img_type))
            \o <<CR, ";">> \o Repeat("0", AppendLen(output_data))
            \o <<CR>>

\* _parse_thumbnail_b64jpg, from the base64 text of the JPEG
ParseThumbnailB64jpg(img_type, base64_string) ==
    LET max_line == Len(base64_string) \div EachMax
    IN  Fold(base64_string, max_line, Tag(img_type)) \o <<CR>>

(***************************************************************************)
(* One run of the script, and runs repeated on the same file               *)
(***************************************************************************)

MaxRuns == 2
MaxPayload == 2

\* _generate_gcode_prefix: the encoder calls made for a model, in order
EncoderCalls(model) ==
    IF IsOldThumbnail(model) THEN
        << [encoder |-> "old", width |-> 100, height |-> 100,
            img_type |-> <<"s", "i", "m", "a", "g", "e">>],
           [encoder |-> "old", width |-> 200, height |-> 200,
            img_type |-> <<";", "g", "i", "m", "a", "g", "e">>] >>
    ELSE IF IsNewThumbnail(model) THEN
        << [encoder |-> "new", width |-> 200, height |-> 200,
            img_type |-> <<"g", "i", "m", "a", "g", "e">>],
           [encoder |-> "new", width |-> 160, height |-> 160,
            img_type |-> <<"s", "i", "m", "a", "g", "e">>] >>
    ELSE IF IsB64jpgThumbnail(model) THEN
        << [encoder |-> "b64jpg", width |-> 400, height |-> 400,
            img_type |-> <<"g", "i", "m", "a", "g", "e">>],
           [encoder |-> "b64jpg", width |-> 114, height |-> 114,
            img_type |-> <<"s", "i", "m", "a", "g", "e">>] >>
    ELSE <<>>

\* What lib_col_pic.ColPic_EncodeStr leaves in output_data: some non-zero bytes
\* before the unused zero bytes of the over-sized buffer.  For a null image the
\* buffer has length 0 and no room for the codec's header: the call has no
\* result and raises.
ColPicOutputs(b_image) ==
    IF b_image = NullImage THEN {}
    ELSE {Flatten([k \in 1..n |-> <<65, 1>>]) \o <<0, 0>> : n \in 1..MaxPayload}

\* The base64 text of the JPEG: empty when QImage.save fails on a null image.
JpegBase64(b_image) ==
    IF b_image = NullImage THEN {<<>>}
    ELSE {Flatten([k \in 1..n |-> <<"/", "9", "j", "/">>]) : n \in 1..MaxPayload}

\* the blocks one encoder call may return
EncoderResults(call, img) ==
    LET b_image == Scaled(img, call.width, call.height)
    IN  IF call.encoder = "old"
            THEN {ParseThumbnailOld(img, call.width, call.height, call.img_type)}
        ELSE IF call.encoder = "new"
            THEN {ParseThumbnailNew(call.img_type, out) : out \in ColPicOutputs(b_image)}
        ELSE {ParseThumbnailB64jpg(call.img_type, b64) : b64 \in JpegBase64(b_image)}

Fail(e) ==
    /\ pc' = "failed"
    /\ err' = e

\* __init__: extract and decode the thumbnail, then settle the printer model
Construct ==
    /\ pc = "start"
    /\ LET t == GetBase64Thumbnail(file)
           d == DecodeThumbnail(t.text)
           m == GetPrinterModel(file)
       IN  IF ~t.ok
               THEN Fail(ThumbnailNotFound) /\ UNCHANGED <<thumbnail, printer_model>>
           ELSE IF ~d.ok
               THEN Fail(BadBase64) /\ UNCHANGED <<thumbnail, printer_model>>
           ELSE \E img \in d.images :
                   /\ thumbnail' = img
                   /\ IF ~NeedsLookup(printer)
                          THEN /\ printer_model' = printer
                               /\ pc' = "constructed"
                               /\ err' = err
                      ELSE IF m.ok
                          THEN /\ printer_model' = m.model
                               /\ pc' = "constructed"
                               /\ err' = err
                      ELSE Fail(PrinterModelNotFound) /\ printer_model' = printer_model
    /\ UNCHANGED <<file, file0, linesep, printer, g_code, gcode_prefix, calls, writes,
                   prev, runs, scanVars, foldVars>>

\* a plausible slip: the prefix is added without asking is_supported_printer
MainAlwaysAdds ==
    /\ pc = "constructed"
    /\ pc' = "add"
    /\ UNCHANGED <<file, file0, linesep, printer, err, thumbnail, printer_model, g_code,
                   gcode_prefix, calls, writes, prev, runs, scanVars, foldVars>>

\* __main__: add the prefix only for a supported printer
Main ==
    /\ pc = "constructed"
    /\ pc' = IF IsSupportedPrinter(printer_model) THEN "add" ELSE "done"
    /\ UNCHANGED <<file, file0, linesep, printer, err, thumbnail, printer_model, g_code,
                   gcode_prefix, calls, writes, prev, runs, scanVars, foldVars>>

\* a plausible slip: the result of replace is dropped
RemoveMarkDropped(text) == text

\* the replace of line 151
RemoveMark(text) == StrReplace(text, PrusaSlicer, CensoredSlicer)

\* the guard of line 154
NoThumbnailYet(text) == ~Contains(text, GimageTag) /\ ~Contains(text, SimageTag)

\* a plausible slip: the file is opened for writing, and so truncated, when it
\* is read, before the prefix is generated
ReadGcodeOpensForWriting ==
    /\ pc = "add"
    /\ g_code' = RemoveMark(ReadText(file))
    /\ pc' = IF NoThumbnailYet(g_code') THEN "generate" ELSE "done"
    /\ file' = <<>>
    /\ writes' = writes + 1
    /\ UNCHANGED <<file0, linesep, printer, err, thumbnail, printer_model,
                   gcode_prefix, calls, prev, runs, scanVars, foldVars>>

\* add_thumbnail_prefix, lines 145-154: read the file, remove the slicer's
\* mark, and go on only when the text carries no thumbnail yet
ReadGcode ==
    /\ pc = "add"
    /\ g_code' = RemoveMark(ReadText(file))
    /\ pc' = IF NoThumbnailYet(g_code') THEN "generate" ELSE "done"
    /\ UNCHANGED <<file, file0, linesep, printer, err, thumbnail, printer_model,
                   gcode_prefix, calls, writes, prev, runs, scanVars, foldVars>>

\* _generate_gcode_prefix: the next encoder call returns its block
Encode ==
    /\ pc = "generate"
    /\ Len(calls) < Len(EncoderCalls(printer_model))
    /\ LET call == EncoderCalls(printer_model)[Len(calls) + 1]
       IN  \E block \in EncoderResults(call, thumbnail) :
               /\ gcode_prefix' = gcode_prefix \o block
               /\ calls' = Append(calls, [call |-> call, block |-> block])
    /\ UNCHANGED <<file, file0, linesep, printer, pc, err, thumbnail, printer_model,
                   g_code, writes, prev, runs, scanVars, foldVars>>

\* the external codec of the next call raises, and the except clause re-raises
\* (QImage.save on a null image raises nothing: it returns False)
EncodeFails ==
    /\ pc = "generate"
    /\ Len(calls) < Len(EncoderCalls(printer_model))
    /\ LET call == EncoderCalls(printer_model)[Len(calls) + 1]
       IN  /\ \/ call.encoder = "new"
              \/ /\ call.encoder = "b64jpg"
                 /\ Scaled(thumbnail, call.width, call.height) # NullImage
           /\ Fail(IF call.encoder = "new" THEN "CompressionFailure"
                   ELSE "ImageEncodeFailure")
    /\ UNCHANGED <<file, file0, linesep, printer, thumbnail, printer_model, g_code,
                   gcode_prefix, calls, writes, prev, runs, scanVars, foldVars>>

\* lines 134-136: the identification comment closes a non-empty prefix
WithIdentification(prefix) ==
    IF prefix # <<>> THEN prefix \o Identification ELSE prefix

\* a plausible slip: the prefix is written after the g-code
WriteFileAppends ==
    /\ pc = "generate"
    /\ Len(calls) = Len(EncoderCalls(printer_model))
    /\ gcode_prefix' = WithIdentification(gcode_prefix)
    /\ file' = WriteText(g_code \o gcode_prefix', linesep)
    /\ writes' = writes + 1
    /\ pc' = "done"
    /\ UNCHANGED <<file0, linesep, printer, err, thumbnail, printer_model, g_code,
                   calls, prev, runs, scanVars, foldVars>>

\* lines 156-157: open the file for writing and write prefix + g_code
WriteFile ==
    /\ pc = "generate"
    /\ Len(calls) = Len(EncoderCalls(printer_model))
    /\ gcode_prefix' = WithIdentification(gcode_prefix)
    /\ file' = WriteText(gcode_prefix' \o g_code, linesep)
    /\ writes' = writes + 1
    /\ pc' = "done"
    /\ UNCHANGED <<file0, linesep, printer, err, thumbnail, printer_model, g_code,
                   calls, prev, runs, scanVars, foldVars>>

Ended == pc \in {"done", "failed"}

UnknownModel ==
    <<"M", "K", "4", "S">>

\* the --printer overrides tried
Overrides == {<<>>, NEPTUNE2S, UnknownModel}

\* how a run ended, as the next run on the file remembers it
Outcome ==
    IF pc = "failed" THEN "failed"
    ELSE IF IsSupportedPrinter(printer_model) THEN "completed"
    ELSE "unsupported"

\* the script is started again, with the same arguments, on the file the last
\* run left
NextRun ==
    /\ Ended
    /\ runs < MaxRuns
    /\ prev' = Outcome
    /\ runs' = runs + 1
    /\ file0' = file
    /\ pc' = "start"
    /\ err' = ""
    /\ thumbnail' = NullImage
    /\ printer_model' = <<>>
    /\ g_code' = <<>>
    /\ gcode_prefix' = <<>>
    /\ calls' = <<>>
    /\ writes' = 0
    /\ UNCHANGED <<file, linesep, printer, scanVars, foldVars>>

(***************************************************************************)
(* The g-code files the runs start from                                    *)
(***************************************************************************)

LineBegin600 ==
    <<";", " ", "t", "h", "u", "m", "b", "n", "a", "i", "l", " ", "b", "e", "g", "i", "n", " ",
      "6", "0", "0", "x", "6", "0", "0", " ", "1", "6">>
LineBegin300 ==
    <<";", " ", "t", "h", "u", "m", "b", "n", "a", "i", "l", " ", "b", "e", "g", "i", "n", " ",
      "3", "0", "0", "x", "3", "0", "0", " ", "1", "6">>
LinePng ==
    <<";", " ", "i", "V", "B", "O", "R", "w", "0", "K", "G", "g", "o", "=">>
LineNotPng ==
    <<";", " ", "Q", "U", "J", "D">>
LineBadBase64 ==
    <<";", " ", "Q", "U", "J">>
LineSlicer ==
    <<";", " ", "g", "e", "n", "e", "r", "a", "t", "e", "d", " ", "b", "y", " ", "P", "r", "u",
      "s", "a", "S", "l", "i", "c", "e", "r", " ", "2", ".", "7", ".", "1">>
LineTagged ==
    <<";", "g", "i", "m", "a", "g", "e", ":", "0", "a", "0", "b">>
LineGcode ==
    <<"G", "1", " ", "X", "1", "0">>

LineModel(m) == PrinterModelKey \o m

Heads == {<<>>, <<LineSlicer>>, <<LineSlicer, LineTagged>>}

Thumbs ==
    { <<>>,
      <<LineBegin600, LinePng, ThumbnailEnd>>,
      <<LineBegin600, LineNotPng, ThumbnailEnd>>,
      <<LineBegin600, LineBadBase64, ThumbnailEnd>>,
      <<LineBegin300, LinePng, ThumbnailEnd>>,
      <<LineBegin600, LinePng>> }

Declarations ==
    { <<>>, <<LineModel(NEPTUNE4)>>, <<LineModel(NEPTUNE2)>>,
      <<LineModel(ORANGESTORMGIGA)>>, <<LineModel(UnknownModel)>> }

JoinLines(ls, eol) == Flatten([i \in 1..Len(ls) |-> ls[i] \o eol])

\* every combination with Unix line ends, and those that name the slicer also
\* with Windows line ends
Files ==
    { JoinLines(h \o t \o d \o <<LineGcode>>, <<LF>>) :
        h \in Heads, t \in Thumbs, d \in Declarations }
    \cup
    { JoinLines(<<LineSlicer>> \o t \o d \o <<LineGcode>>, <<CR, LF>>) :
        t \in Thumbs, d \in Declarations }

ScanIdle ==
    /\ lines = <<>>
    /\ idx = 0
    /\ found = FALSE
    /\ base64_thumbnail = <<>>
    /\ scan = "idle"

FoldIdle ==
    /\ kind = "none"
    /\ payload = <<>>
    /\ result = <<>>

RunIdle ==
    /\ file = <<>>
    /\ file0 = <<>>
    /\ linesep = <<LF>>
    /\ printer = <<>>
    /\ pc = "idle"
    /\ err = ""
    /\ thumbnail = NullImage
    /\ printer_model = <<>>
    /\ g_code = <<>>
    /\ gcode_prefix = <<>>
    /\ calls = <<>>
    /\ writes = 0
    /\ prev = "none"
    /\ runs = 0

Init ==
    /\ file \in Files
    /\ file0 = file
    /\ linesep \in {<<LF>>, <<CR, LF>>}
    /\ printer \in Overrides
    /\ pc = "start"
    /\ err = ""
    /\ thumbnail = NullImage
    /\ printer_model = <<>>
    /\ g_code = <<>>
    /\ gcode_prefix = <<>>
    /\ calls = <<>>
    /\ writes = 0
    /\ prev = "none"
    /\ runs = 1
    /\ ScanIdle
    /\ FoldIdle

Next ==
    \/ Construct
    \/ Main
    \/ ReadGcode
    \/ Encode
    \/ EncodeFails
    \/ WriteFile
    \/ NextRun

Spec == Init /\ [][Next]_vars

(***************************************************************************)
(* Properties of a run                                                     *)
(***************************************************************************)

\* the model belongs to one of the three known groups
InKnownGroup(model) == model \in (OLD_MODELS \cup NEW_MODELS \cup B64JPG_MODELS)

\* the file holds a correctly delimited 600x600 block that decodes to an image
ValidThumbnail(bytes) ==
    LET t == GetBase64Thumbnail(bytes)
        d == DecodeThumbnail(t.text)
    IN  t.ok /\ d.ok /\ NullImage \notin d.images

\* the file holds a block, and its text passes the base64 decoder
ThumbnailLoads(bytes) ==
    LET t == GetBase64Thumbnail(bytes)
    IN  t.ok /\ DecodeThumbnail(t.text).ok

\* the model the resolver of a run settles on: the override when it is a known
\* model, else the model the file declares
Resolved(p, bytes) ==
    IF NeedsLookup(p) THEN GetPrinterModel(bytes) ELSE [ok |-> TRUE, model |-> p]

Count(s, p) == Cardinality(Occurrences(s, p))

\* C1: a run on the file that a completed run for a supported model left behind
\* leaves the file byte for byte as it found it.
C1_SecondRunChangesNothing ==
    (prev = "completed" /\ Ended) => file = file0

\* C2: a run that fails has not opened the file for writing and leaves its
\* content as it was at the start; a run writes the file at most once, and only
\* after both encoder calls have returned.
C2_NoWriteBeforeFailure ==
    /\ pc = "failed" => (writes = 0 /\ file = file0)
    /\ writes <= 1
    /\ writes = 1 => (pc = "done" /\ err = "" /\ Len(calls) = 2)
    /\ file # file0 => writes = 1

C2_Witness ==
    /\ pc = "failed"
    /\ err = "ImageEncodeFailure"
    /\ Len(calls) = 1
    /\ writes = 0

C4_UnsupportedModelSkips ==
    LET m == Resolved(printer, file0)
    IN  (Ended /\ m.ok /\ ~InKnownGroup(m.model))
            => (pc = "done" /\ err = "" /\ file = file0)

\* C4 amended: when the resolved model is in none of the known groups the file
\* is left unchanged; the run ends successfully when the thumbnail was
\* extracted and decoded, which happens before the model is resolved, and
\* fails with the thumbnail's error otherwise.
C4_UnsupportedModelSkipsAfterThumbnail ==
    LET m == Resolved(printer, file0)
    IN  (Ended /\ m.ok /\ ~InKnownGroup(m.model))
            => /\ writes = 0
               /\ file = file0
               /\ ThumbnailLoads(file0) => (pc = "done" /\ err = "")
               /\ ~ThumbnailLoads(file0) =>
                      (pc = "failed" /\ err \in {ThumbnailNotFound, BadBase64})

C4_Witness ==
    /\ pc = "done"
    /\ printer = <<>>
    /\ printer_model = UnknownModel
    /\ ThumbnailLoads(file0)
    /\ file = file0

\* C5 as claimed: after an injection the file is the generated prefix followed
\* by the original content, unmodified.
C5_PrefixThenOriginal ==
    (pc = "done" /\ writes = 1) => file = gcode_prefix \o file0

\* C5 amended: after an injection the file is the generated prefix (the two
\* blocks, then the identification comment) followed by the original content
\* as text mode reads it, with every "PrusaSlicer" replaced by
\* "CensoredSlicer", the whole written in text mode.
C5_PrefixThenRewrittenOriginal ==
    (pc = "done" /\ writes = 1) =>
        /\ Len(calls) = 2
        /\ gcode_prefix = calls[1].block \o calls[2].block \o Identification
        /\ file = WriteText(gcode_prefix
                              \o StrReplace(ReadText(file0), PrusaSlicer, CensoredSlicer),
                            linesep)

C5_Witness ==
    /\ pc = "done"
    /\ writes = 1
    /\ Contains(file0, PrusaSlicer)
    /\ file # gcode_prefix \o file0

\* C6 as claimed: after a completed run for a supported model the file holds no
\* "PrusaSlicer", whether the prefix was prepended or the guard skipped it.
C6_NoSlicerNameLeft ==
    (pc = "done" /\ InKnownGroup(printer_model)) => ~Contains(file, PrusaSlicer)

\* C6 amended: when the prefix was prepended, what follows it in the file holds
\* no "PrusaSlicer", each occurrence of the original being replaced by
\* "CensoredSlicer"; when the guard skipped the prepend, the file is unchanged
\* and keeps every occurrence.
C6_SlicerNameReplacedOnInjection ==
    (pc = "done" /\ InKnownGroup(printer_model)) =>
        LET rest == From(file, Len(WriteText(gcode_prefix, linesep)))
        IN  /\ writes = 1 =>
                /\ ~Contains(rest, PrusaSlicer)
                /\ Count(rest, CensoredSlicer)
                       = Count(file0, PrusaSlicer) + Count(file0, CensoredSlicer)
            /\ writes = 0 =>
                /\ file = file0
                /\ Count(file, PrusaSlicer) = Count(file0, PrusaSlicer)

C6_Witness ==
    /\ pc = "done"
    /\ writes = 1
    /\ Contains(file0, PrusaSlicer)
    /\ ~Contains(file, PrusaSlicer)

\* C9: for a Legacy model the prefix holds two Legacy blocks, the first for
\* 100x100 named simage, the second for 200x200 named gimage, each beginning
\* with ";" + name + ":" emitted exactly once.
C9_LegacyBlocks ==
    (pc = "generate" /\ Len(calls) = 2 /\ printer_model \in OLD_MODELS) =>
        /\ calls[1].call.encoder = "old"
        /\ calls[1].call.width = 100 /\ calls[1].call.height = 100
        /\ StartsWith(calls[1].block, SimageTag)
        /\ Count(calls[1].block, SimageTag) = 1
        /\ calls[2].call.encoder = "old"
        /\ calls[2].call.width = 200 /\ calls[2].call.height = 200
        /\ StartsWith(calls[2].block, GimageTag)
        /\ Count(calls[2].block, GimageTag) = 1
        /\ gcode_prefix = calls[1].block \o calls[2].block

(***************************************************************************)
(* The scan for the thumbnail, line by line, on streams of a few lines     *)
(***************************************************************************)

MaxScanLines == 3

LineBegin6000 ==
    <<";", " ", "t", "h", "u", "m", "b", "n", "a", "i", "l", " ", "b", "e", "g", "i", "n", " ",
      "6", "0", "0", "x", "6", "0", "0", "0", " ", "1", "6">>
LineEndSpace ==
    <<";", " ", "t", "h", "u", "m", "b", "n", "a", "i", "l", " ", "e", "n", "d", " ">>
LineShort ==
    <<";">>

ScanPool ==
    {LineBegin600, LineBegin6000, LineBegin300, LineNotPng, ThumbnailEnd,
     LineEndSpace, LineShort}

InitExtract ==
    /\ lines \in UNION {[1..k -> ScanPool] : k \in 0..MaxScanLines}
    /\ idx = 1
    /\ found = FALSE
    /\ base64_thumbnail = <<>>
    /\ scan = "scanning"
    /\ RunIdle
    /\ FoldIdle

NextExtract ==
    \/ ScanLine
    \/ ScanExhausted

SpecExtract == InitExtract /\ [][NextExtract]_vars

\* the line is a begin marker that declares the size 600x600: the size ends
\* with the line or is followed by a space
Declares600(line) ==
    /\ StartsWith(line, ThumbnailBegin)
    /\ Len(line) > Len(ThumbnailBegin) => line[Len(ThumbnailBegin) + 1] = " "

\* C10: the scan is a machine with the states closed and open.  Closed, it
\* opens on a marker line that declares 600x600 and on no other line; open, it
\* appends each line from offset 2 and returns what it gathered at the first
\* line equal to "; thumbnail end"; it fails exactly when the lines end before
\* that.
C10_Step ==
    scan = "scanning" =>
        IF idx > Len(lines) THEN scan' = "raised"
        ELSE LET line == lines[idx]
             IN  /\ scan' # "raised"
                 /\ (~found /\ Declares600(line)) =>
                        (found' /\ scan' = "scanning"
                            /\ base64_thumbnail' = base64_thumbnail)
                 /\ (~found /\ ~Declares600(line)) =>
                        (~found' /\ scan' = "scanning"
                            /\ base64_thumbnail' = base64_thumbnail)
                 /\ (found /\ line = ThumbnailEnd) =>
                        (scan' = "returned" /\ base64_thumbnail' = base64_thumbnail)
                 /\ (found /\ line # ThumbnailEnd) =>
                        (found' /\ scan' = "scanning"
                            /\ base64_thumbnail' = base64_thumbnail \o From(line, 2))

C10_ScanIsTwoStateMachine == [][C10_Step]_vars

(***************************************************************************)
(* The two folding encoders on payloads around the line boundaries         *)
(***************************************************************************)

MaxFoldLines == 2

\* payload lengths from 12 below to 4 above each multiple of EachMax
FoldLengths ==
    {n \in 0..(MaxFoldLines * EachMax + 4) :
        \E k \in 0..MaxFoldLines : k * EachMax - 12 <= n /\ n <= k * EachMax + 4}

\* codec buffers with n non-zero bytes: printable bytes, bytes that repr()
\* escapes, and the bytes of the text "\x00"
ColPicBuffers ==
    {Repeat(65, n) \o <<0, 0>> : n \in FoldLengths \ {0}}
    \cup {<<0>> \o Repeat(1, n) \o <<0>> : n \in FoldLengths \ {0}}
    \cup {Flatten([k \in 1..(n \div 4) |-> <<92, 120, 48, 48>>]) \o <<0>> :
            n \in {m \in FoldLengths : m >= 4}}

\* base64 texts: their length is a multiple of 4
Base64Texts == {Repeat("A", n) : n \in {m \in FoldLengths : m % 4 = 0}}

Gimage == <<"g", "i", "m", "a", "g", "e">>

InitFold ==
    /\ \/ kind = "new" /\ payload \in ColPicBuffers
       \/ kind = "b64jpg" /\ payload \in Base64Texts
    /\ result = <<>>
    /\ RunIdle
    /\ ScanIdle

ApplyNew ==
    /\ kind = "new"
    /\ result = <<>>
    /\ result' = ParseThumbnailNew(Gimage, payload)
    /\ UNCHANGED <<kind, payload, runVars, scanVars>>

ApplyB64jpg ==
    /\ kind = "b64jpg"
    /\ result = <<>>
    /\ result' = ParseThumbnailB64jpg(Gimage, payload)
    /\ UNCHANGED <<kind, payload, runVars, scanVars>>

NextFold ==
    \/ ApplyNew
    \/ ApplyB64jpg

SpecFold == InitFold /\ [][NextFold]_vars

\* the lines of a block: the pieces between its "\r", without the empty piece
\* after the "\r" that ends the block
BlockLines(block) ==
    LET pieces == SplitOn(block, CR)
    IN  SubSeq(pieces, 1, Len(pieces) - 1)

CommentTag == <<";">> \o GimageTag

\* a line without the tag it begins with, plain or comment-prefixed
WithoutTag(line) ==
    IF StartsWith(line, CommentTag) THEN From(line, Len(CommentTag))
    ELSE IF StartsWith(line, GimageTag) THEN From(line, Len(GimageTag))
    ELSE line

\* the characters the encoder folds
FoldedChars == IF kind = "new" THEN SelectSeq(payload, LAMBDA b : b # 0) ELSE payload

\* the lines of the block that carry the payload
PayloadLines ==
    LET ls == BlockLines(result)
    IN  IF kind = "new" THEN SubSeq(ls, 1, Len(ls) - 1) ELSE ls

\* C7 as claimed: no line of the block, the padding line of a ColPic block
\* included, is longer than 1015 characters without its tag.
C7_NoLineOver1015 ==
    result # <<>> =>
        \A i \in 1..Len(BlockLines(result)) :
            Len(WithoutTag(BlockLines(result)[i])) <= 1015

\* C7 amended: no line that carries payload is longer than 1015 characters
\* without its tag; the padding line that ends a ColPic block is ";" and at
\* most 1022 zeros, so up to 1023 characters.
C7_NoPayloadLineOver1015 ==
    result # <<>> =>
        LET ls == BlockLines(result)
        IN  /\ \A i \in 1..Len(PayloadLines) : Len(WithoutTag(PayloadLines[i])) <= 1015
            /\ kind = "new" =>
                LET pad == ls[Len(ls)]
                IN  /\ Len(ls) = Len(PayloadLines) + 1
                    /\ pad[1] = ";"
                    /\ \A k \in 2..Len(pad) : pad[k] = "0"
                    /\ Len(pad) <= 1023

C7_Witness ==
    /\ result # <<>>
    /\ kind = "new"
    /\ Len(PayloadLines) = 2
    /\ Len(WithoutTag(PayloadLines[1])) = 1015
    /\ Len(BlockLines(result)[Len(BlockLines(result))]) = 1023

\* C8: for a non-empty payload the block starts with the tag and no line
\* break, every payload line begins with the tag, the comment-prefixed tag
\* appears only on the last payload line and only after a full line, and the
\* plain tag on every other line.
C8_FoldingTags ==
    (result # <<>> /\ FoldedChars # <<>>) =>
        LET ls == PayloadLines
        IN  /\ StartsWith(result, GimageTag)
            /\ \A i \in 1..Len(ls) :
                   StartsWith(ls[i], GimageTag) \/ StartsWith(ls[i], CommentTag)
            /\ \A i \in 1..Len(ls) :
                   StartsWith(ls[i], CommentTag) => (i = Len(ls) /\ i > 1)
            /\ \A i \in 1..(Len(ls) - 1) : StartsWith(ls[i], GimageTag)

====
